---------------------------- MODULE Spec2Model ----------------------------
(***************************************************************************)
(* A model of the two stateful/algorithmic cores of the backend:           *)
(*   - core/services/privacy_scoring.py : calculate_privacy_score          *)
(*   - core/views.py : NetworkDeviceViewSet and NetworkScanLogViewSet      *)
(* and of the social login of core/views_auth.py.                          *)
(*                                                                         *)
(* Strings that the code only compares for equality are TLA+ strings.      *)
(* Strings the code transforms character by character (category,           *)
(* network_usage_level) are sequences of one-character strings, so that    *)
(* lower(), upper() and replace() are computed and not assumed.            *)
(***************************************************************************)
EXTENDS Integers, Sequences, FiniteSets, TLC

VARIABLES
    permissions,          \* argument of calculate_privacy_score
    category,             \* argument of calculate_privacy_score
    network_usage_level,  \* argument of calculate_privacy_score
    result,               \* what the call returned (NoResult before the call)
    devices,              \* the NetworkDevice table: a set of rows
    next_id,              \* the table's auto-increment primary key
    clock,                \* the last value timezone.now() returned
    requests,             \* the number of requests served
    last_op,              \* the last request served on the device registry
    scan_log,             \* history: per device id, the time of the scan that
                          \* created it and of the last scan that matched it
    procs,                \* the requests in progress, when requests interleave
    flag_log,             \* history: per device id, the flags the last
                          \* mark_trusted / mark_blocked / unmark in progress saved
    users,                \* the User table: a set of rows
    social_accounts,      \* the SocialAccount table: a set of rows
    login                 \* the last request served by the auth views

score_vars == <<permissions, category, network_usage_level, result>>
conc_vars == <<procs, flag_log>>
auth_vars == <<users, social_accounts, login>>
device_vars == <<devices, next_id, clock, requests, last_op, scan_log, procs, flag_log>>
vars == <<permissions, category, network_usage_level, result,
          devices, next_id, clock, requests, last_op, scan_log, procs, flag_log,
          users, social_accounts, login>>

-----------------------------------------------------------------------------
(* Bounds of the model *)

MaxPerms == 4      \* longest permission list scored
MaxBatch == 2      \* most observations in one scan
MaxDevices == 2    \* most rows ever inserted into the device table
MaxTime == 2       \* last instant of the clock
MaxRequests == 3   \* most requests served on the device registry
MaxProcs == 3      \* most requests started in one interleaved behaviour
MaxListed == 6     \* longest permission list whose explanation is examined
MaxLogins == 3     \* most requests served by the auth views

-----------------------------------------------------------------------------
(* Python helpers *)

Min(a, b) == IF a < b THEN a ELSE b
Max(a, b) == IF a > b THEN a ELSE b

UpperOf ==
    [c \in {"a","b","c","d","e","f","g","h","i","j","k","l","m",
            "n","o","p","q","r","s","t","u","v","w","x","y","z"} |->
        CASE c = "a" -> "A" [] c = "b" -> "B" [] c = "c" -> "C" [] c = "d" -> "D"
          [] c = "e" -> "E" [] c = "f" -> "F" [] c = "g" -> "G" [] c = "h" -> "H"
          [] c = "i" -> "I" [] c = "j" -> "J" [] c = "k" -> "K" [] c = "l" -> "L"
          [] c = "m" -> "M" [] c = "n" -> "N" [] c = "o" -> "O" [] c = "p" -> "P"
          [] c = "q" -> "Q" [] c = "r" -> "R" [] c = "s" -> "S" [] c = "t" -> "T"
          [] c = "u" -> "U" [] c = "v" -> "V" [] c = "w" -> "W" [] c = "x" -> "X"
          [] c = "y" -> "Y" [] c = "z" -> "Z"]

\* str.upper(), on a sequence of characters
str_upper(s) ==
    [i \in 1..Len(s) |-> IF s[i] \in DOMAIN UpperOf THEN UpperOf[s[i]] ELSE s[i]]

LowerOf ==
    [c \in {"A","B","C","D","E","F","G","H","I","J","K","L","M",
            "N","O","P","Q","R","S","T","U","V","W","X","Y","Z"} |->
        CASE c = "A" -> "a" [] c = "B" -> "b" [] c = "C" -> "c" [] c = "D" -> "d"
          [] c = "E" -> "e" [] c = "F" -> "f" [] c = "G" -> "g" [] c = "H" -> "h"
          [] c = "I" -> "i" [] c = "J" -> "j" [] c = "K" -> "k" [] c = "L" -> "l"
          [] c = "M" -> "m" [] c = "N" -> "n" [] c = "O" -> "o" [] c = "P" -> "p"
          [] c = "Q" -> "q" [] c = "R" -> "r" [] c = "S" -> "s" [] c = "T" -> "t"
          [] c = "U" -> "u" [] c = "V" -> "v" [] c = "W" -> "w" [] c = "X" -> "x"
          [] c = "Y" -> "y" [] c = "Z" -> "z"]

\* str.lower(), on a sequence of characters
str_lower(s) ==
    [i \in 1..Len(s) |-> IF s[i] \in DOMAIN LowerOf THEN LowerOf[s[i]] ELSE s[i]]

\* str.replace(old, new) for a one-character old and new
str_replace(s, old, new) ==
    [i \in 1..Len(s) |-> IF s[i] = old THEN new ELSE s[i]]

\* d[k]: the value, or the KeyError raised when k is no key of d
dict_subscript(d, k) ==
    IF k \in DOMAIN d THEN [raised |-> FALSE, value |-> d[k]]
    ELSE [raised |-> TRUE, value |-> 0]

\* d.get(k, default)
dict_get(d, k, default) == IF k \in DOMAIN d THEN d[k] ELSE default

-----------------------------------------------------------------------------
(* privacy_scoring.py: the tables *)

DANGEROUS_PERMISSIONS ==
    [p \in {"android.permission.ACCESS_FINE_LOCATION",
            "android.permission.ACCESS_COARSE_LOCATION",
            "android.permission.ACCESS_BACKGROUND_LOCATION",
            "android.permission.CAMERA",
            "android.permission.RECORD_AUDIO",
            "android.permission.READ_CONTACTS",
            "android.permission.WRITE_CONTACTS",
            "android.permission.READ_CALENDAR",
            "android.permission.WRITE_CALENDAR",
            "android.permission.READ_PHONE_STATE",
            "android.permission.CALL_PHONE",
            "android.permission.READ_CALL_LOG",
            "android.permission.READ_SMS",
            "android.permission.SEND_SMS",
            "android.permission.RECEIVE_SMS",
            "android.permission.READ_EXTERNAL_STORAGE",
            "android.permission.WRITE_EXTERNAL_STORAGE",
            "android.permission.MANAGE_EXTERNAL_STORAGE",
            "android.permission.BODY_SENSORS",
            "android.permission.ACTIVITY_RECOGNITION",
            "android.permission.READ_MEDIA_IMAGES",
            "android.permission.READ_MEDIA_VIDEO",
            "android.permission.READ_MEDIA_AUDIO",
            "android.permission.POST_NOTIFICATIONS",
            "android.permission.BLUETOOTH_CONNECT",
            "android.permission.NEARBY_WIFI_DEVICES"} |->
        CASE p = "android.permission.ACCESS_FINE_LOCATION" -> 15
          [] p = "android.permission.ACCESS_COARSE_LOCATION" -> 10
          [] p = "android.permission.ACCESS_BACKGROUND_LOCATION" -> 20
          [] p = "android.permission.CAMERA" -> 15
          [] p = "android.permission.RECORD_AUDIO" -> 15
          [] p = "android.permission.READ_CONTACTS" -> 12
          [] p = "android.permission.WRITE_CONTACTS" -> 15
          [] p = "android.permission.READ_CALENDAR" -> 8
          [] p = "android.permission.WRITE_CALENDAR" -> 10
          [] p = "android.permission.READ_PHONE_STATE" -> 10
          [] p = "android.permission.CALL_PHONE" -> 12
          [] p = "android.permission.READ_CALL_LOG" -> 15
          [] p = "android.permission.READ_SMS" -> 15
          [] p = "android.permission.SEND_SMS" -> 18
          [] p = "android.permission.RECEIVE_SMS" -> 15
          [] p = "android.permission.READ_EXTERNAL_STORAGE" -> 8
          [] p = "android.permission.WRITE_EXTERNAL_STORAGE" -> 10
          [] p = "android.permission.MANAGE_EXTERNAL_STORAGE" -> 15
          [] p = "android.permission.BODY_SENSORS" -> 12
          [] p = "android.permission.ACTIVITY_RECOGNITION" -> 8
          [] p = "android.permission.READ_MEDIA_IMAGES" -> 8
          [] p = "android.permission.READ_MEDIA_VIDEO" -> 8
          [] p = "android.permission.READ_MEDIA_AUDIO" -> 5
          [] p = "android.permission.POST_NOTIFICATIONS" -> 3
          [] p = "android.permission.BLUETOOTH_CONNECT" -> 5
          [] p = "android.permission.NEARBY_WIFI_DEVICES" -> 8]

\* Faulty variant: MEDIUM costs 10 instead of 5
NETWORK_USAGE_PENALTIES_medium10 ==
    [k \in {<<"L","O","W">>, <<"M","E","D","I","U","M">>, <<"H","I","G","H">>} |->
        CASE k = <<"L","O","W">> -> 0
          [] k = <<"M","E","D","I","U","M">> -> 10
          [] k = <<"H","I","G","H">> -> 15]

\* Faulty variant: the penalties of MEDIUM and HIGH exchanged
NETWORK_USAGE_PENALTIES_swapped ==
    [k \in {<<"L","O","W">>, <<"M","E","D","I","U","M">>, <<"H","I","G","H">>} |->
        CASE k = <<"L","O","W">> -> 0
          [] k = <<"M","E","D","I","U","M">> -> 15
          [] k = <<"H","I","G","H">> -> 5]

NETWORK_USAGE_PENALTIES ==
    [k \in {<<"L","O","W">>, <<"M","E","D","I","U","M">>, <<"H","I","G","H">>} |->
        CASE k = <<"L","O","W">> -> 0
          [] k = <<"M","E","D","I","U","M">> -> 5
          [] k = <<"H","I","G","H">> -> 15]

\* CATEGORY_ADJUSTMENTS[key]['base_penalty'] (expected_permissions is never read)
CATEGORY_ADJUSTMENTS ==
    [k \in {<<"s","o","c","i","a","l">>,
            <<"c","o","m","m","u","n","i","c","a","t","i","o","n">>,
            <<"n","a","v","i","g","a","t","i","o","n">>,
            <<"p","h","o","t","o","g","r","a","p","h","y">>,
            <<"h","e","a","l","t","h","_","f","i","t","n","e","s","s">>,
            <<"f","i","n","a","n","c","e">>,
            <<"g","a","m","e","s">>,
            <<"p","r","o","d","u","c","t","i","v","i","t","y">>,
            <<"e","n","t","e","r","t","a","i","n","m","e","n","t">>,
            <<"s","h","o","p","p","i","n","g">>,
            <<"e","d","u","c","a","t","i","o","n">>,
            <<"u","t","i","l","i","t","i","e","s">>} |->
        [base_penalty |->
            CASE k = <<"s","o","c","i","a","l">> -> 5
              [] k = <<"f","i","n","a","n","c","e">> -> -5
              [] k = <<"g","a","m","e","s">> -> 5
              [] k = <<"e","n","t","e","r","t","a","i","n","m","e","n","t">> -> 3
              [] OTHER -> 0]]

\* _simplify_permission_name, tabulated on the permissions it is called on
\* (prefix removed, '_' -> ' ', str.title())
simplify_permission_name ==
    [p \in DOMAIN DANGEROUS_PERMISSIONS |->
        CASE p = "android.permission.ACCESS_FINE_LOCATION" -> "Access Fine Location"
          [] p = "android.permission.ACCESS_COARSE_LOCATION" -> "Access Coarse Location"
          [] p = "android.permission.ACCESS_BACKGROUND_LOCATION" -> "Access Background Location"
          [] p = "android.permission.CAMERA" -> "Camera"
          [] p = "android.permission.RECORD_AUDIO" -> "Record Audio"
          [] p = "android.permission.READ_CONTACTS" -> "Read Contacts"
          [] p = "android.permission.WRITE_CONTACTS" -> "Write Contacts"
          [] p = "android.permission.READ_CALENDAR" -> "Read Calendar"
          [] p = "android.permission.WRITE_CALENDAR" -> "Write Calendar"
          [] p = "android.permission.READ_PHONE_STATE" -> "Read Phone State"
          [] p = "android.permission.CALL_PHONE" -> "Call Phone"
          [] p = "android.permission.READ_CALL_LOG" -> "Read Call Log"
          [] p = "android.permission.READ_SMS" -> "Read Sms"
          [] p = "android.permission.SEND_SMS" -> "Send Sms"
          [] p = "android.permission.RECEIVE_SMS" -> "Receive Sms"
          [] p = "android.permission.READ_EXTERNAL_STORAGE" -> "Read External Storage"
          [] p = "android.permission.WRITE_EXTERNAL_STORAGE" -> "Write External Storage"
          [] p = "android.permission.MANAGE_EXTERNAL_STORAGE" -> "Manage External Storage"
          [] p = "android.permission.BODY_SENSORS" -> "Body Sensors"
          [] p = "android.permission.ACTIVITY_RECOGNITION" -> "Activity Recognition"
          [] p = "android.permission.READ_MEDIA_IMAGES" -> "Read Media Images"
          [] p = "android.permission.READ_MEDIA_VIDEO" -> "Read Media Video"
          [] p = "android.permission.READ_MEDIA_AUDIO" -> "Read Media Audio"
          [] p = "android.permission.POST_NOTIFICATIONS" -> "Post Notifications"
          [] p = "android.permission.BLUETOOTH_CONNECT" -> "Bluetooth Connect"
          [] p = "android.permission.NEARBY_WIFI_DEVICES" -> "Nearby Wifi Devices"]


-----------------------------------------------------------------------------
(* privacy_scoring.py: calculate_privacy_score *)

\* Faulty variant: the membership test before the subscript left out
perm_in_table_unguarded(perm) == TRUE

\* `perm in DANGEROUS_PERMISSIONS`
perm_in_table(perm) == perm \in DOMAIN DANGEROUS_PERMISSIONS

\* The locals of the permission loop before its first iteration
loop_start ==
    [raised |-> FALSE,
     permission_penalty |-> 0,
     high_risk_permissions |-> <<>>,
     medium_risk_permissions |-> <<>>]

\* Faulty variant: the cap applied inside the loop, a weight that would take the sum
\* past 60 being dropped
loop_body_capped_inside(acc, perm) ==
    IF perm \in DOMAIN DANGEROUS_PERMISSIONS
          /\ acc.permission_penalty + DANGEROUS_PERMISSIONS[perm] <= 60
    THEN [acc EXCEPT !.permission_penalty = @ + DANGEROUS_PERMISSIONS[perm]]
    ELSE acc

\* Faulty variant: a permission whose name is already in one of the two lists
\* is passed over
loop_body_listed_once(acc, perm) ==
    IF perm \in DOMAIN DANGEROUS_PERMISSIONS
          /\ (\E i \in DOMAIN acc.high_risk_permissions :
                 acc.high_risk_permissions[i] = simplify_permission_name[perm])
    THEN acc
    ELSE IF perm \in DOMAIN DANGEROUS_PERMISSIONS
    THEN [raised |-> FALSE,
          permission_penalty |-> acc.permission_penalty + DANGEROUS_PERMISSIONS[perm],
          high_risk_permissions |->
              IF DANGEROUS_PERMISSIONS[perm] >= 15
              THEN Append(acc.high_risk_permissions, simplify_permission_name[perm])
              ELSE acc.high_risk_permissions,
          medium_risk_permissions |->
              IF DANGEROUS_PERMISSIONS[perm] < 15 /\ DANGEROUS_PERMISSIONS[perm] >= 8
              THEN Append(acc.medium_risk_permissions, simplify_permission_name[perm])
              ELSE acc.medium_risk_permissions]
    ELSE acc

\* One iteration of `for perm in permissions`
loop_body(acc, perm) ==
    IF acc.raised THEN acc
    ELSE IF perm_in_table(perm)
    THEN LET lookup == dict_subscript(DANGEROUS_PERMISSIONS, perm)
             penalty == lookup.value
         IN
         IF lookup.raised THEN [acc EXCEPT !.raised = TRUE]
         ELSE [raised |-> FALSE,
               permission_penalty |-> acc.permission_penalty + penalty,
               high_risk_permissions |->
                   IF penalty >= 15
                   THEN Append(acc.high_risk_permissions, simplify_permission_name[perm])
                   ELSE acc.high_risk_permissions,
               medium_risk_permissions |->
                   IF penalty < 15 /\ penalty >= 8
                   THEN Append(acc.medium_risk_permissions, simplify_permission_name[perm])
                   ELSE acc.medium_risk_permissions]
    ELSE acc

\* The locals after the first n iterations of the loop
RECURSIVE permission_loop(_, _)
permission_loop(perms, n) ==
    IF n = 0 THEN loop_start
    ELSE loop_body(permission_loop(perms, n - 1), perms[n])

\* Faulty variant: the permission penalty left uncapped
cap_permission_penalty_off(p) == p

\* `permission_penalty = min(permission_penalty, 60)`
cap_permission_penalty(p) == Min(p, 60)

\* `NETWORK_USAGE_PENALTIES.get(network_usage_level.upper(), 5)`
network_penalty_of(level) == dict_get(NETWORK_USAGE_PENALTIES, str_upper(level), 5)

\* `category.lower().replace(' ', '_').replace('&', '_')`
category_lower_of(cat) == str_replace(str_replace(str_lower(cat), " ", "_"), "&", "_")

\* `CATEGORY_ADJUSTMENTS.get(category_lower, {... 'base_penalty': 0})['base_penalty']`
category_penalty_of(cat) ==
    dict_get(CATEGORY_ADJUSTMENTS, category_lower_of(cat), [base_penalty |-> 0]).base_penalty

\* Faulty variant: the score left unclamped
final_score_unclamped(total_penalty) == 100 - total_penalty

\* `max(0, min(100, base_score - total_penalty))`
final_score_of(total_penalty) == Max(0, Min(100, 100 - total_penalty))

\* Faulty variant: the slice takes the whole list
Take_all(s, n) == s

\* The first n elements of s: s[:n]
Take(s, n) == SubSeq(s, 1, Min(n, Len(s)))

Note(text, args, points) == [text |-> text, args |-> args, points |-> points]

\* The `concerns` list
concerns_of(high, medium, level) ==
    (IF high # <<>> THEN <<Note("High-risk permissions", high, 0)>> ELSE <<>>)
    \o (IF medium # <<>>
        THEN <<Note("Sensitive permissions", Take(medium, 5), 0)>> ELSE <<>>)
    \o (IF str_upper(level) = <<"H","I","G","H">>
        THEN <<Note("High network activity may indicate data sharing", <<>>, 0)>>
        ELSE <<>>)

\* The `positives` list
positives_of(cat, category_penalty, final_score, perms) ==
    (IF category_penalty # 0 /\ ~(category_penalty > 0)
     THEN <<Note("Trusted category", cat, -category_penalty)>> ELSE <<>>)
    \o (IF final_score >= 80 THEN <<Note("Low privacy risk overall", <<>>, 0)>>
        ELSE IF Len(perms) = 0
        THEN <<Note("No dangerous permissions requested", <<>>, 0)>>
        ELSE <<>>)

Neutral == [clause |-> "This app has moderate privacy characteristics.", notes |-> <<>>]

\* Faulty variant: the neutral sentence is added to every explanation
explanation_with_neutral(concerns, positives) ==
    (IF concerns # <<>>
     THEN <<[clause |-> "Concerns", notes |-> concerns]>> ELSE <<>>)
    \o (IF positives # <<>>
        THEN <<[clause |-> "Positives", notes |-> positives]>> ELSE <<>>)
    \o <<Neutral>>

\* `explanation`: the parts that " | ".join() puts together, each the clause's
\* heading and the notes that "; ".join() puts together
explanation_of(concerns, positives) ==
    LET explanation_parts ==
            (IF concerns # <<>>
             THEN <<[clause |-> "Concerns", notes |-> concerns]>> ELSE <<>>)
            \o (IF positives # <<>>
                THEN <<[clause |-> "Positives", notes |-> positives]>> ELSE <<>>)
    IN IF explanation_parts = <<>> THEN <<Neutral>> ELSE explanation_parts

\* Faulty variant: the KEEP threshold exclusive
suggested_action_exclusive(final_score) ==
    IF final_score > 70 THEN "KEEP"
    ELSE IF final_score >= 40 THEN "REVIEW"
    ELSE "CONSIDER_UNINSTALL"

\* The `suggested_action` chain
suggested_action_of(final_score) ==
    IF final_score >= 70 THEN "KEEP"
    ELSE IF final_score >= 40 THEN "REVIEW"
    ELSE "CONSIDER_UNINSTALL"

\* `permission_penalty` after the loop and the cap
permission_penalty_of(perms) ==
    cap_permission_penalty(permission_loop(perms, Len(perms)).permission_penalty)

\* Faulty variant: a negative category penalty is left out of the total
total_penalty_without_bonus(perms, cat, level) ==
    permission_penalty_of(perms) + network_penalty_of(level)
        + Max(0, category_penalty_of(cat))

\* `total_penalty = permission_penalty + network_penalty + category_penalty`
total_penalty_of(perms, cat, level) ==
    permission_penalty_of(perms) + network_penalty_of(level) + category_penalty_of(cat)

\* `final_score`
score_of(perms, cat, level) == final_score_of(total_penalty_of(perms, cat, level))

\* The rest of the function once the loop and the score are known
build_result(loop, final_score, perms, cat, level) ==
    [status |-> "returned",
     score |-> final_score,
     explanation |->
         explanation_of(
             concerns_of(loop.high_risk_permissions,
                         loop.medium_risk_permissions, level),
             positives_of(cat, category_penalty_of(cat), final_score, perms)),
     suggested_action |-> suggested_action_of(final_score),
     permission_penalty |-> cap_permission_penalty(loop.permission_penalty),
     network_penalty |-> network_penalty_of(level),
     category_penalty |-> category_penalty_of(cat)]

\* The call: status "returned" with the returned triple (score, explanation,
\* suggested_action) and the three penalties it was computed from, or status
\* "raised" when an exception leaves the function
calculate_privacy_score(perms, cat, level) ==
    IF permission_loop(perms, Len(perms)).raised THEN [status |-> "raised"]
    ELSE build_result(permission_loop(perms, Len(perms)),
                      score_of(perms, cat, level), perms, cat, level)

-----------------------------------------------------------------------------
(* The inputs calculate_privacy_score is called on *)

Internet == "android.permission.INTERNET"
FineLocation == "android.permission.ACCESS_FINE_LOCATION"
Camera == "android.permission.CAMERA"
BackgroundLocation == "android.permission.ACCESS_BACKGROUND_LOCATION"
ReadContacts == "android.permission.READ_CONTACTS"
ReadCalendar == "android.permission.READ_CALENDAR"

\* weights 15, 15, 20, 12, 8 and a permission that is not in the table
PermUniverse ==
    {FineLocation, Camera, BackgroundLocation, ReadContacts, ReadCalendar, Internet}

PermLists == UNION {[1..n -> PermUniverse] : n \in 0..MaxPerms}

Finance == <<"f","i","n","a","n","c","e">>
Games == <<"g","a","m","e","s">>

Categories ==
    {Finance, Games,
     <<"e","n","t","e","r","t","a","i","n","m","e","n","t">>,
     <<"H","e","a","l","t","h"," ","F","i","t","n","e","s","s">>,
     <<"H","e","a","l","t","h"," ","&"," ","F","i","t","n","e","s","s">>,
     <<>>}

Low == <<"L","O","W">>
Medium == <<"M","E","D","I","U","M">>
High == <<"H","I","G","H">>

NetworkLevels == {Low, Medium, High, <<"h","i","g","h">>, <<"N","O","N","E">>}

NoResult == [status |-> "pending"]

-----------------------------------------------------------------------------
(* The scorer as a state machine: one call on inputs drawn from the sets above *)

ScoreInit ==
    /\ permissions \in PermLists
    /\ category \in Categories
    /\ network_usage_level \in NetworkLevels
    /\ result = NoResult
    /\ devices = {}
    /\ next_id = 1
    /\ clock = 0
    /\ requests = 0
    /\ last_op = [op |-> "none"]
    /\ scan_log = <<>>
    /\ procs = <<>>
    /\ flag_log = <<>>
    /\ users = {}
    /\ social_accounts = {}
    /\ login = [op |-> "none"]

\* PrivacyCheckView.post's call of calculate_privacy_score
PrivacyCheck ==
    /\ result = NoResult
    /\ result' = calculate_privacy_score(permissions, category, network_usage_level)
    /\ UNCHANGED <<permissions, category, network_usage_level>>
    /\ UNCHANGED <<device_vars, auth_vars>>

ScoreNext == PrivacyCheck

ScoreSpec == ScoreInit /\ [][ScoreNext]_vars

Returned == result.status = "returned"

-----------------------------------------------------------------------------
(* models.py: NetworkDevice, and the requests' inputs *)

Users == {"alice", "bob"}

MAC1 == "AA:AA:AA:AA:AA:AA"
IP1 == "192.168.1.10"
IP2 == "192.168.1.11"

\* timezone.now(): the time source does not go back, and moves on by at most
\* one instant between two requests
Now == {t \in {clock, clock + 1} : t <= MaxTime}

\* A key a device_info dict does not hold
Absent == "<absent>"

\* device_info.get(key, default)
info_get(value, default) == IF value = Absent THEN default ELSE value

\* A scan observation (one device_info of the request's "devices" list)
Obs(mac, ip, name, type) ==
    [mac_address |-> mac, ip_address |-> ip, name |-> name, device_type |-> type]

Observations ==
    {Obs(MAC1, IP1, "tv", "TV"),        \* everything supplied
     Obs(MAC1, Absent, Absent, Absent), \* a MAC alone
     Obs(MAC1, IP2, "", ""),            \* empty name and type
     Obs(MAC1, IP2, "box", "IOT"),      \* everything supplied, all different
     Obs(Absent, IP1, Absent, Absent),  \* an IP alone
     Obs("", IP2, "cam", Absent),       \* an empty MAC and another IP
     Obs(Absent, Absent, "ghost", Absent)} \* neither MAC nor IP

Batches == UNION {[1..n -> Observations] : n \in 0..MaxBatch}

\* The bodies of the generic create and update requests (NetworkDeviceSerializer's
\* writable fields)
DeviceData ==
    [name : {""}, ip_address : {IP1}, mac_address : {MAC1},
     device_type : {"UNKNOWN"}, is_trusted : BOOLEAN, is_blocked : BOOLEAN]

Ids == 1..MaxDevices

\* Faulty variant: the table without the unique_together constraint
unique_together_off(rows, row) == TRUE

\* unique_together = [['owner', 'mac_address']]: row may be stored beside rows
unique_together(rows, row) ==
    ~\E r \in rows :
        r.id # row.id /\ r.owner = row.owner /\ r.mac_address = row.mac_address

\* The row with primary key pk
RowOf(rows, pk) == CHOOSE r \in rows : r.id = pk

\* rows with the row of d's primary key replaced by d: device.save()
Saved(rows, d) == {r \in rows : r.id # d.id} \cup {d}

-----------------------------------------------------------------------------
(* views.py: NetworkDeviceViewSet *)

\* Faulty variant: the queryset left unfiltered
get_queryset_all(user) == devices

\* get_queryset: the rows the user may address
get_queryset(user) == {r \in devices : r.owner = user}

\* Faulty variant: mark_trusted leaves is_blocked as it is
trusted_flags_only_trusted(d) == [d EXCEPT !.is_trusted = TRUE]

\* mark_trusted's two assignments
trusted_flags(d) == [d EXCEPT !.is_trusted = TRUE, !.is_blocked = FALSE]

\* mark_blocked's two assignments
blocked_flags(d) == [d EXCEPT !.is_blocked = TRUE, !.is_trusted = FALSE]

\* unmark's two assignments
unmarked_flags(d) == [d EXCEPT !.is_trusted = FALSE, !.is_blocked = FALSE]

Flags(d) == <<d.is_trusted, d.is_blocked>>

\* POST /network/devices/{id}/mark_trusted/: get_object (404 unless the row is in the caller's queryset),
\* the two assignments, save(), and the serialized row as the response
mark_trusted(user, pk) ==
    /\ requests < MaxRequests
    /\ requests' = requests + 1
    /\ IF \E r \in get_queryset(user) : r.id = pk
       THEN LET device == RowOf(devices, pk) IN
            /\ devices' = Saved(devices, trusted_flags(device))
            /\ last_op' = [op |-> "mark_trusted", user |-> user, pk |-> pk, status |-> 200,
                           before |-> Flags(device), data |-> Flags(trusted_flags(device))]
       ELSE /\ devices' = devices
            /\ last_op' = [op |-> "mark_trusted", user |-> user, pk |-> pk, status |-> 404]
    /\ UNCHANGED <<next_id, clock, scan_log>>
    /\ UNCHANGED <<score_vars, conc_vars, auth_vars>>

\* POST /network/devices/{id}/mark_blocked/: get_object (404 unless the row is in the caller's queryset),
\* the two assignments, save(), and the serialized row as the response
mark_blocked(user, pk) ==
    /\ requests < MaxRequests
    /\ requests' = requests + 1
    /\ IF \E r \in get_queryset(user) : r.id = pk
       THEN LET device == RowOf(devices, pk) IN
            /\ devices' = Saved(devices, blocked_flags(device))
            /\ last_op' = [op |-> "mark_blocked", user |-> user, pk |-> pk, status |-> 200,
                           before |-> Flags(device), data |-> Flags(blocked_flags(device))]
       ELSE /\ devices' = devices
            /\ last_op' = [op |-> "mark_blocked", user |-> user, pk |-> pk, status |-> 404]
    /\ UNCHANGED <<next_id, clock, scan_log>>
    /\ UNCHANGED <<score_vars, conc_vars, auth_vars>>

\* POST /network/devices/{id}/unmark/: get_object (404 unless the row is in the caller's queryset),
\* the two assignments, save(), and the serialized row as the response
unmark(user, pk) ==
    /\ requests < MaxRequests
    /\ requests' = requests + 1
    /\ IF \E r \in get_queryset(user) : r.id = pk
       THEN LET device == RowOf(devices, pk) IN
            /\ devices' = Saved(devices, unmarked_flags(device))
            /\ last_op' = [op |-> "unmark", user |-> user, pk |-> pk, status |-> 200,
                           before |-> Flags(device), data |-> Flags(unmarked_flags(device))]
       ELSE /\ devices' = devices
            /\ last_op' = [op |-> "unmark", user |-> user, pk |-> pk, status |-> 404]
    /\ UNCHANGED <<next_id, clock, scan_log>>
    /\ UNCHANGED <<score_vars, conc_vars, auth_vars>>

\* POST /network/devices/: ModelViewSet.create with perform_create; the row gets
\* the request's fields, the user as owner and timezone.now() as both timestamps.
\* A row that breaks unique_together is not stored.
device_create(user, data, now) ==
    /\ requests < MaxRequests
    /\ next_id <= MaxDevices
    /\ now \in Now
    /\ requests' = requests + 1
    /\ clock' = now
    /\ LET row == [id |-> next_id, owner |-> user, name |-> data.name,
                   ip_address |-> data.ip_address, mac_address |-> data.mac_address,
                   device_type |-> data.device_type, is_trusted |-> data.is_trusted,
                   is_blocked |-> data.is_blocked,
                   first_seen_at |-> now, last_seen_at |-> now]
       IN IF unique_together(devices, row)
          THEN /\ devices' = devices \cup {row}
               /\ next_id' = next_id + 1
               /\ scan_log' = (next_id :> [created |-> -1, matched |-> -1]) @@ scan_log
               /\ last_op' = [op |-> "create", user |-> user, pk |-> next_id,
                              status |-> 201]
          ELSE /\ UNCHANGED <<devices, next_id, scan_log>>
               /\ last_op' = [op |-> "create", user |-> user, pk |-> 0, status |-> 500]
    /\ UNCHANGED <<score_vars, conc_vars, auth_vars>>

\* PUT /network/devices/{id}/: ModelViewSet.update; the writable fields are
\* replaced, the read-only ones (id, first_seen_at, last_seen_at) and owner kept.
device_update(user, pk, data) ==
    /\ requests < MaxRequests
    /\ requests' = requests + 1
    /\ IF \E r \in get_queryset(user) : r.id = pk
       THEN LET d == RowOf(devices, pk)
                row == [d EXCEPT !.name = data.name,
                                 !.ip_address = data.ip_address,
                                 !.mac_address = data.mac_address,
                                 !.device_type = data.device_type,
                                 !.is_trusted = data.is_trusted,
                                 !.is_blocked = data.is_blocked]
            IN IF unique_together(devices, row)
               THEN /\ devices' = Saved(devices, row)
                    /\ last_op' = [op |-> "update", user |-> user, pk |-> pk,
                                   status |-> 200]
               ELSE /\ devices' = devices
                    /\ last_op' = [op |-> "update", user |-> user, pk |-> pk,
                                   status |-> 500]
       ELSE /\ devices' = devices
            /\ last_op' = [op |-> "update", user |-> user, pk |-> pk, status |-> 404]
    /\ UNCHANGED <<next_id, clock, scan_log>>
    /\ UNCHANGED <<score_vars, conc_vars, auth_vars>>

\* DELETE /network/devices/{id}/: ModelViewSet.destroy
device_destroy(user, pk) ==
    /\ requests < MaxRequests
    /\ requests' = requests + 1
    /\ IF \E r \in get_queryset(user) : r.id = pk
       THEN /\ devices' = {r \in devices : r.id # pk}
            /\ scan_log' = [i \in DOMAIN scan_log \ {pk} |-> scan_log[i]]
            /\ last_op' = [op |-> "destroy", user |-> user, pk |-> pk, status |-> 204]
       ELSE /\ UNCHANGED <<devices, scan_log>>
            /\ last_op' = [op |-> "destroy", user |-> user, pk |-> pk, status |-> 404]
    /\ UNCHANGED <<next_id, clock>>
    /\ UNCHANGED <<score_vars, conc_vars, auth_vars>>

-----------------------------------------------------------------------------
(* views.py: NetworkScanLogViewSet.create *)

\* The state the handler's loop works on: the table, the primary-key counter, the
\* history, the ids the observations resolved to so far (in order) and whether an
\* exception has left the loop
LoopState(rows, nid, log, touched, failed) ==
    [rows |-> rows, nid |-> nid, log |-> log, touched |-> touched, failed |-> failed]

\* NetworkDevice.objects.get_or_create(**lookup, defaults=...): `found` are the rows
\* the lookup matches and `row` the row to insert when there is none. The insert
\* raises IntegrityError when it breaks unique_together; get_or_create then looks
\* up again and, finding nothing, re-raises.
get_or_create(found, row, rows) ==
    IF Cardinality(found) = 1
    THEN [device |-> CHOOSE r \in found : TRUE, created |-> FALSE, raised |-> FALSE]
    ELSE IF Cardinality(found) > 1
    THEN [device |-> row, created |-> FALSE, raised |-> TRUE]
    ELSE IF unique_together(rows, row)
    THEN [device |-> row, created |-> TRUE, raised |-> FALSE]
    ELSE [device |-> row, created |-> FALSE, raised |-> TRUE]

\* The `if mac:` branch: lookup by (owner, mac_address)
lookup_by_mac(rows, user, mac) ==
    {r \in rows : r.owner = user /\ r.mac_address = mac}

\* The `else:` branch: lookup by (owner, ip_address, mac_address='')
lookup_by_ip(rows, user, ip) ==
    {r \in rows : r.owner = user /\ r.ip_address = ip /\ r.mac_address = ""}

\* The row get_or_create inserts: the lookup's fields, the defaults, and the
\* model's defaults for the two flags
new_device(nid, user, mac, ip, info, now) ==
    [id |-> nid, owner |-> user,
     name |-> info_get(info.name, ""),
     ip_address |-> IF mac # "" THEN (IF ip # "" THEN ip ELSE "0.0.0.0") ELSE ip,
     mac_address |-> mac,
     device_type |-> info_get(info.device_type, "UNKNOWN"),
     is_trusted |-> FALSE, is_blocked |-> FALSE,
     first_seen_at |-> now, last_seen_at |-> now]

\* Faulty variant: the update writes the model's defaults for the two flags
update_device_resets_flags(device, ip, info, now) ==
    [device EXCEPT
        !.ip_address = IF ip # "" THEN ip ELSE @,
        !.name = IF info_get(info.name, "") # "" THEN info_get(info.name, "") ELSE @,
        !.last_seen_at = now,
        !.device_type =
            IF info_get(info.device_type, "") # "" THEN info.device_type ELSE @,
        !.is_trusted = FALSE,
        !.is_blocked = FALSE]

\* Faulty variant: the update takes the observation's name even when it is empty
update_device_overwrites_name(device, ip, info, now) ==
    [device EXCEPT
        !.ip_address = IF ip # "" THEN ip ELSE @,
        !.name = info_get(info.name, ""),
        !.last_seen_at = now,
        !.device_type =
            IF info_get(info.device_type, "") # "" THEN info.device_type ELSE @]

\* Faulty variant: the update leaves last_seen_at as it is
update_device_keeps_last_seen(device, ip, info, now) ==
    [device EXCEPT
        !.ip_address = IF ip # "" THEN ip ELSE @,
        !.name = IF info_get(info.name, "") # "" THEN info_get(info.name, "") ELSE @,
        !.device_type =
            IF info_get(info.device_type, "") # "" THEN info.device_type ELSE @]

\* The `if not created:` block, up to save()
update_device(device, ip, info, now) ==
    [device EXCEPT
        !.ip_address = IF ip # "" THEN ip ELSE @,
        !.name = IF info_get(info.name, "") # "" THEN info_get(info.name, "") ELSE @,
        !.last_seen_at = now,
        !.device_type =
            IF info_get(info.device_type, "") # "" THEN info.device_type ELSE @]

\* Faulty variant: an observation without MAC and IP is processed like the others
no_address_never(mac, ip) == FALSE

\* `if not mac and not ip: continue`
no_address(mac, ip) == mac = "" /\ ip = ""

\* Faulty variant: an exception of get_or_create is caught and the loop goes on
process_device_info_swallows(st, info, user, now) ==
    LET mac == info_get(info.mac_address, "")
        ip == info_get(info.ip_address, "")
        got == get_or_create(
                   IF mac # "" THEN lookup_by_mac(st.rows, user, mac)
                   ELSE lookup_by_ip(st.rows, user, ip),
                   new_device(st.nid, user, mac, ip, info, now),
                   st.rows)
    IN
    IF st.failed \/ (mac = "" /\ ip = "") \/ got.raised THEN st
    ELSE IF got.created
    THEN LoopState(st.rows \cup {got.device}, st.nid + 1,
                   (st.nid :> [created |-> now, matched |-> now]) @@ st.log,
                   Append(st.touched, st.nid), FALSE)
    ELSE LoopState(Saved(st.rows, update_device(got.device, ip, info, now)), st.nid,
                   [st.log EXCEPT ![got.device.id].matched = now],
                   Append(st.touched, got.device.id), FALSE)

\* One iteration of `for device_info in devices_data`
process_device_info(st, info, user, now) ==
    LET mac == info_get(info.mac_address, "")
        ip == info_get(info.ip_address, "")
    IN
    IF st.failed THEN st
    ELSE IF no_address(mac, ip) THEN st
    ELSE
    LET got == get_or_create(
                   IF mac # "" THEN lookup_by_mac(st.rows, user, mac)
                   ELSE lookup_by_ip(st.rows, user, ip),
                   new_device(st.nid, user, mac, ip, info, now),
                   st.rows)
    IN
    IF got.raised THEN [st EXCEPT !.failed = TRUE]
    ELSE IF got.created
    THEN LoopState(st.rows \cup {got.device}, st.nid + 1,
                   (st.nid :> [created |-> now, matched |-> now]) @@ st.log,
                   Append(st.touched, st.nid), FALSE)
    ELSE LoopState(Saved(st.rows, update_device(got.device, ip, info, now)), st.nid,
                   [st.log EXCEPT ![got.device.id].matched = now],
                   Append(st.touched, got.device.id), FALSE)

\* The loop state after the first n observations of the batch
RECURSIVE process_batch(_, _, _, _, _)
process_batch(st, batch, n, user, now) ==
    IF n = 0 THEN st
    ELSE process_device_info(process_batch(st, batch, n - 1, user, now),
                             batch[n], user, now)

\* POST /network/scans/: the whole handler. `now` is read once, before the loop.
\* Each get_or_create and save() commits on its own, so what the loop stored
\* before an exception stays stored; the response is then a 500.
scan_create(user, batch, now) ==
    /\ requests < MaxRequests
    /\ now \in Now
    /\ LET end == process_batch(LoopState(devices, next_id, scan_log, <<>>, FALSE),
                                batch, Len(batch), user, now)
       IN /\ end.nid <= MaxDevices + 1
          /\ devices' = end.rows
          /\ next_id' = end.nid
          /\ scan_log' = end.log
          /\ last_op' = [op |-> "scan", user |-> user, now |-> now,
                         devices_count |-> Len(batch),
                         touched |-> end.touched,
                         status |-> IF end.failed THEN 500 ELSE 201]
    /\ requests' = requests + 1
    /\ clock' = now
    /\ UNCHANGED <<score_vars, conc_vars, auth_vars>>

-----------------------------------------------------------------------------
(* The device registry as a state machine *)

Init ==
    /\ permissions = <<>>
    /\ category = <<>>
    /\ network_usage_level = Medium
    /\ result = NoResult
    /\ devices = {}
    /\ next_id = 1
    /\ clock = 0
    /\ requests = 0
    /\ last_op = [op |-> "none"]
    /\ scan_log = <<>>
    /\ procs = <<>>
    /\ flag_log = <<>>
    /\ users = {}
    /\ social_accounts = {}
    /\ login = [op |-> "none"]

Next ==
    \/ \E user \in Users, batch \in Batches, now \in Now :
          scan_create(user, batch, now)
    \/ \E user \in Users, pk \in Ids : mark_trusted(user, pk)
    \/ \E user \in Users, pk \in Ids : mark_blocked(user, pk)
    \/ \E user \in Users, pk \in Ids : unmark(user, pk)
    \/ \E user \in Users, data \in DeviceData, now \in Now :
          device_create(user, data, now)
    \/ \E user \in Users, pk \in Ids, data \in DeviceData :
          device_update(user, pk, data)
    \/ \E user \in Users, pk \in Ids : device_destroy(user, pk)

Spec == Init /\ [][Next]_vars

-----------------------------------------------------------------------------
(* Definitions the properties of the scorer are stated with *)

\* The sum of f over the finite set S
RECURSIVE SetSum(_, _)
SetSum(f, S) ==
    IF S = {} THEN 0
    ELSE LET x == CHOOSE y \in S : TRUE IN f[x] + SetSum(f, S \ {x})

\* The number of positions of perms that hold p
Occurrences(perms, p) == Cardinality({i \in 1..Len(perms) : perms[i] = p})

\* The sum of the table weights of the elements of perms, unknown ones counting 0
WeightSum(perms) ==
    SetSum([p \in DOMAIN DANGEROUS_PERMISSIONS |->
                DANGEROUS_PERMISSIONS[p] * Occurrences(perms, p)],
           DOMAIN DANGEROUS_PERMISSIONS)

\* perms rearranged by the permutation f of its positions
Permuted(perms, f) == [i \in 1..Len(perms) |-> perms[f[i]]]

\* perms with q inserted after its first i elements
Inserted(perms, i, q) ==
    SubSeq(perms, 1, i) \o <<q>> \o SubSeq(perms, i + 1, Len(perms))

\* perms without the permissions that are not in the weight table
RECURSIVE KnownOnly(_)
KnownOnly(perms) ==
    IF perms = <<>> THEN <<>>
    ELSE IF Head(perms) \in DOMAIN DANGEROUS_PERMISSIONS
         THEN <<Head(perms)>> \o KnownOnly(Tail(perms))
         ELSE KnownOnly(Tail(perms))

\* The explanation holds the note `text`
HasNote(text) ==
    \E i \in DOMAIN result.explanation :
        \E j \in DOMAIN result.explanation[i].notes :
            result.explanation[i].notes[j].text = text

-----------------------------------------------------------------------------
(* Properties of calculate_privacy_score, checked under ScoreSpec *)

\* C1: every returned score lies in 0..100.
C1_ScoreInRange == Returned => (0 <= result.score /\ result.score <= 100)

\* C1 witness: a call whose total penalty is negative, so that the upper clamp acts.
C1_Witness ==
    /\ Returned
    /\ result.permission_penalty + result.network_penalty + result.category_penalty < 0
    /\ result.score = 100

\* C2: the permission penalty is min(60, sum of the weights of the list, unknown
\* permissions counting 0) and is the same for every permutation of the list.
C2_PermissionPenalty ==
    Returned =>
        /\ result.permission_penalty = Min(60, WeightSum(permissions))
        /\ \A f \in Permutations(1..Len(permissions)) :
              permission_penalty_of(Permuted(permissions, f)) = result.permission_penalty

\* C2 witness: a list of permissions of different weights whose sum is above
\* the cap, so that the cap and the order of the additions both matter.
C2_Witness ==
    /\ Returned
    /\ WeightSum(permissions) > 60
    /\ result.permission_penalty = 60
    /\ \E i, j \in 1..Len(permissions) :
          /\ permissions[i] \in DOMAIN DANGEROUS_PERMISSIONS
          /\ permissions[j] \in DOMAIN DANGEROUS_PERMISSIONS
          /\ DANGEROUS_PERMISSIONS[permissions[i]] < DANGEROUS_PERMISSIONS[permissions[j]]

\* C3: the suggested action is decided by the score alone: KEEP from 70 up,
\* REVIEW from 40 to 69, CONSIDER_UNINSTALL below 40.
C3_ActionThresholds ==
    Returned =>
        /\ result.score >= 70 => result.suggested_action = "KEEP"
        /\ (40 <= result.score /\ result.score < 70) => result.suggested_action = "REVIEW"
        /\ result.score < 40 => result.suggested_action = "CONSIDER_UNINSTALL"
        /\ result.score = 70 => result.suggested_action = "KEEP"
        /\ result.score = 69 => result.suggested_action = "REVIEW"
        /\ result.score = 40 => result.suggested_action = "REVIEW"
        /\ result.score = 39 => result.suggested_action = "CONSIDER_UNINSTALL"

\* C3 witness: a call that scores 39, the first score below the REVIEW band.
C3_Witness == Returned /\ result.score = 39 /\ result.suggested_action = "CONSIDER_UNINSTALL"

\* The other three boundary scores are reached too.
C3_Reach70 == Returned /\ result.score = 70
C3_Reach69 == Returned /\ result.score = 69
C3_Reach40 == Returned /\ result.score = 40

\* C4: [ACCESS_FINE_LOCATION, CAMERA], "finance", MEDIUM scores 70 with KEEP, and
\* [], "games", HIGH scores 80 with KEEP.
C4_WorkedExamples ==
    Returned =>
        /\ (permissions = <<FineLocation, Camera>> /\ category = Finance
                /\ network_usage_level = Medium)
            => (result.score = 70 /\ result.suggested_action = "KEEP")
        /\ (permissions = <<>> /\ category = Games /\ network_usage_level = High)
            => (result.score = 80 /\ result.suggested_action = "KEEP")

\* C4 witness: the first worked example has been scored.
C4_Witness ==
    /\ Returned
    /\ permissions = <<FineLocation, Camera>>
    /\ category = Finance
    /\ network_usage_level = Medium
    /\ result.permission_penalty = 30

\* C5: whenever the permission list is empty the explanation holds the note
\* "No dangerous permissions requested".
C5_EmptyListNote ==
    (Returned /\ permissions = <<>>) => HasNote("No dangerous permissions requested")

\* C6: the score does not rise when the network level goes LOW -> MEDIUM -> HIGH,
\* when a permission is added anywhere in the list, or when the category is
\* replaced by one with a larger base penalty.
C6_Monotonic ==
    Returned =>
        /\ score_of(permissions, category, Low) >= score_of(permissions, category, Medium)
        /\ score_of(permissions, category, Medium) >= score_of(permissions, category, High)
        /\ \A q \in PermUniverse : \A i \in 0..Len(permissions) :
              score_of(Inserted(permissions, i, q), category, network_usage_level)
                  <= result.score
        /\ \A c \in Categories :
              category_penalty_of(c) > category_penalty_of(category)
                  => score_of(permissions, c, network_usage_level) <= result.score

\* C6 witness: a call at level LOW whose score strictly drops at HIGH, with an
\* added permission and with a costlier category.
C6_Witness ==
    /\ Returned
    /\ network_usage_level = Low
    /\ score_of(permissions, category, High) < result.score
    /\ score_of(Append(permissions, Camera), category, network_usage_level) < result.score
    /\ score_of(permissions, Games, network_usage_level) < result.score

\* C7: the call returns for every input; permissions outside the weight table
\* add nothing, a category outside the category table has penalty 0 and a
\* network level outside LOW/MEDIUM/HIGH has penalty 5.
C7_NeverFails ==
    result # NoResult =>
        /\ result.status = "returned"
        /\ result.permission_penalty
              = permission_penalty_of(KnownOnly(permissions))
        /\ category_lower_of(category) \notin DOMAIN CATEGORY_ADJUSTMENTS
              => result.category_penalty = 0
        /\ str_upper(network_usage_level) \notin DOMAIN NETWORK_USAGE_PENALTIES
              => result.network_penalty = 5

\* C7 witness: a call with an unknown permission, an unknown category and an
\* unknown network level has returned.
C7_Witness ==
    /\ Returned
    /\ \E i \in 1..Len(permissions) : permissions[i] = Internet
    /\ category_lower_of(category) \notin DOMAIN CATEGORY_ADJUSTMENTS
    /\ str_upper(network_usage_level) \notin DOMAIN NETWORK_USAGE_PENALTIES
    /\ result.score = 100 - result.permission_penalty - 5

-----------------------------------------------------------------------------
(* Properties of the device registry, checked under Spec *)

\* C8: no device is trusted and blocked at once, whatever requests were served.
C8_MutuallyExclusive == \A d \in devices : ~(d.is_trusted /\ d.is_blocked)

Owns(user, pk) == \E r \in devices : r.id = pk /\ r.owner = user

\* The last request was the detail action `name` on device pk and succeeded
LastWas(name, pk) ==
    /\ last_op.op = name
    /\ last_op.pk = pk
    /\ last_op.status = 200

\* The step answers 200 with the flags <<t, b>>, which device pk then has
Answers(pk, t, b) ==
    /\ last_op'.status = 200
    /\ last_op'.data = <<t, b>>
    /\ Flags(RowOf(devices', pk)) = <<t, b>>

\* C9: on a device of the caller, whatever its flags, mark_trusted answers with
\* (trusted, not blocked), mark_blocked with (not trusted, blocked) and unmark
\* with (neither), and the device has these flags; repeating the operation
\* changes no row and answers the same; mark_blocked after mark_trusted leaves
\* (not trusted, blocked).
C9_TrustBlockTransitions ==
    [][\A user \in Users, pk \in Ids :
          Owns(user, pk) =>
              /\ mark_trusted(user, pk) => Answers(pk, TRUE, FALSE)
              /\ mark_blocked(user, pk) => Answers(pk, FALSE, TRUE)
              /\ unmark(user, pk) => Answers(pk, FALSE, FALSE)
              /\ (LastWas("mark_trusted", pk) /\ mark_trusted(user, pk))
                    => (devices' = devices /\ last_op'.data = last_op.data)
              /\ (LastWas("mark_blocked", pk) /\ mark_blocked(user, pk))
                    => (devices' = devices /\ last_op'.data = last_op.data)
              /\ (LastWas("unmark", pk) /\ unmark(user, pk))
                    => (devices' = devices /\ last_op'.data = last_op.data)
              /\ (LastWas("mark_trusted", pk) /\ mark_blocked(user, pk))
                    => Flags(RowOf(devices', pk)) = <<FALSE, TRUE>>
      ]_vars

\* C9 witness: mark_blocked has just been served on a trusted device.
C9_Witness ==
    /\ last_op.op = "mark_blocked"
    /\ last_op.status = 200
    /\ last_op.before = <<TRUE, FALSE>>
    /\ Flags(RowOf(devices, last_op.pk)) = <<FALSE, TRUE>>

\* Every device's timestamps agree with the history of the scans
SeenAsLogged ==
    \A d \in devices :
        /\ d.id \in DOMAIN scan_log
        /\ scan_log[d.id].created # -1 => d.first_seen_at = scan_log[d.id].created
        /\ scan_log[d.id].matched # -1 => d.last_seen_at = scan_log[d.id].matched

\* C10: with a clock that does not go back, a device's first_seen_at stays the
\* time of the scan that created it, and its last_seen_at never decreases and is
\* the time of the last scan in which an observation matched it.
C10_SeenTimestamps ==
    [][/\ SeenAsLogged'
       /\ \A d \in devices : \A e \in devices' :
             d.id = e.id =>
                 /\ e.first_seen_at = d.first_seen_at
                 /\ e.last_seen_at >= d.last_seen_at
      ]_vars

\* C10 witness: a device created by one scan and matched again by a later one.
C10_Witness ==
    \E d \in devices :
        /\ scan_log[d.id].created # -1
        /\ scan_log[d.id].matched > scan_log[d.id].created
        /\ d.first_seen_at = scan_log[d.id].created
        /\ d.last_seen_at = scan_log[d.id].matched

-----------------------------------------------------------------------------
(* Definitions the properties of scan reconciliation are stated with *)

\* The MAC and the IP an observation carries ("" when absent)
ObsMac(o) == IF o.mac_address = Absent THEN "" ELSE o.mac_address
ObsIp(o) == IF o.ip_address = Absent THEN "" ELSE o.ip_address

\* The observation carries a MAC or an IP
HasAddress(o) == ObsMac(o) # "" \/ ObsIp(o) # ""

\* The observation carries an IP and no MAC
IpOnly(o) == ObsMac(o) = "" /\ ObsIp(o) # ""

\* The observation supplies a value for a field
Supplied(v) == v # Absent /\ v # ""

\* The rows of the table with the observation's identity key for the user:
\* (owner, MAC) when it has a MAC, (owner, IP with empty MAC) otherwise
KeyRows(rows, user, o) ==
    IF ObsMac(o) # ""
    THEN {r \in rows : r.owner = user /\ r.mac_address = ObsMac(o)}
    ELSE {r \in rows : r.owner = user /\ r.mac_address = "" /\ r.ip_address = ObsIp(o)}

\* Two observations with the same identity key
SameKey(o1, o2) ==
    /\ HasAddress(o1) /\ HasAddress(o2)
    /\ ObsMac(o1) = ObsMac(o2)
    /\ ObsMac(o1) = "" => ObsIp(o1) = ObsIp(o2)

\* The step is the scan request of last_op'.user at last_op'.now with this batch
ScanStep(batch) ==
    /\ last_op'.op = "scan"
    /\ last_op'.devices_count = Len(batch)
    /\ scan_create(last_op'.user, batch, last_op'.now)

\* The elements of a sequence
Range(seq) == {seq[i] : i \in 1..Len(seq)}

\* The batch without the observations that carry neither MAC nor IP
WithoutUnaddressed(batch) == SelectSeq(batch, HasAddress)

IpOnlyObservations == {o \in Observations : IpOnly(o)}
Addressed == {o \in Observations : HasAddress(o)}

-----------------------------------------------------------------------------
(* Properties of scan reconciliation, checked under Spec *)

\* C11: a scan of one IP-only observation leaves exactly one device with the
\* caller as owner, that IP and an empty MAC: created when there was none, the
\* same row updated when there was one (so the second of two such scans updates
\* what the first created).
C11_IpOnlyTwice ==
    [][\A o \in IpOnlyObservations :
          ScanStep(<<o>>) =>
              LET before == KeyRows(devices, last_op'.user, o)
                  after == KeyRows(devices', last_op'.user, o)
              IN /\ Cardinality(after) = 1
                 /\ before # {} => {r.id : r \in after} = {r.id : r \in before}
                 /\ before = {} => Cardinality(devices') = Cardinality(devices) + 1
      ]_vars

\* C13: a scan of one observation whose identity key has no device creates one
\* with both timestamps at the scan's time, the observed IP or "0.0.0.0" for a MAC
\* without IP, the observed name, and the observed type or UNKNOWN when none is
\* given.
C13_CreatedDevice ==
    [][\A o \in Addressed :
          (ScanStep(<<o>>) /\ KeyRows(devices, last_op'.user, o) = {}) =>
              \E r \in devices' \ devices :
                  /\ devices' = devices \cup {r}
                  /\ r.owner = last_op'.user
                  /\ r.mac_address = ObsMac(o)
                  /\ r.ip_address = IF ObsIp(o) # "" THEN ObsIp(o) ELSE "0.0.0.0"
                  /\ r.name = IF Supplied(o.name) THEN o.name ELSE ""
                  /\ r.device_type =
                        IF Supplied(o.device_type) THEN o.device_type ELSE "UNKNOWN"
                  /\ r.first_seen_at = last_op'.now
                  /\ r.last_seen_at = last_op'.now
      ]_vars

\* C14: a scan leaves every existing device's is_trusted and is_blocked as they
\* were.
C14_ScanKeepsFlags ==
    [][last_op'.op = "scan" =>
          \A d \in devices : \E e \in devices' : e.id = d.id /\ Flags(e) = Flags(d)
      ]_vars

\* C14 witness: a scan has just matched a device that is blocked.
C14_Witness ==
    /\ last_op.op = "scan"
    /\ \E d \in devices : d.id \in Range(last_op.touched) /\ d.is_blocked

\* The batches of IP-only observations
IpOnlyBatches == UNION {[1..n -> IpOnlyObservations] : n \in 1..MaxBatch}

\* C15: a scan whose observations are all IP-only succeeds and leaves, for each
\* of them, a device of the caller with that IP and an empty MAC.
C15_IpOnlyKeyedByIp ==
    [][\A batch \in IpOnlyBatches :
          ScanStep(batch) =>
              /\ last_op'.status = 201
              /\ \A i \in 1..Len(batch) :
                    Cardinality(KeyRows(devices', last_op'.user, batch[i])) = 1
      ]_vars

\* C17: a scan of one observation that matches an existing device replaces
\* ip_address, name and device_type only by values the observation supplies,
\* sets last_seen_at to the scan's time and keeps owner, mac_address and
\* first_seen_at.
C17_UpdateRule ==
    [][\A o \in Addressed :
          ScanStep(<<o>>) =>
              \A d \in KeyRows(devices, last_op'.user, o) :
                  \E e \in devices' :
                      /\ e.id = d.id
                      /\ e.ip_address = IF ObsIp(o) # "" THEN ObsIp(o) ELSE d.ip_address
                      /\ e.name = IF Supplied(o.name) THEN o.name ELSE d.name
                      /\ e.device_type =
                            IF Supplied(o.device_type) THEN o.device_type
                            ELSE d.device_type
                      /\ e.last_seen_at = last_op'.now
                      /\ e.owner = d.owner
                      /\ e.mac_address = d.mac_address
                      /\ e.first_seen_at = d.first_seen_at
      ]_vars

\* C17 witness: a device that kept its name and type and took a new IP from a
\* later scan that supplied only the IP.
C17_Witness ==
    /\ last_op.op = "scan"
    /\ \E d \in devices :
          /\ d.id \in Range(last_op.touched)
          /\ d.name = "tv" /\ d.device_type = "TV" /\ d.ip_address = IP2
          /\ d.last_seen_at > d.first_seen_at

\* The observation without MAC and IP, and the ones put next to it: one with a
\* MAC and one with an IP only
Unaddressed == Obs(Absent, Absent, "ghost", Absent)
SkipCompanions == {Obs(MAC1, IP1, "tv", "TV"), Obs(Absent, IP1, Absent, Absent)}

\* The batches that hold the observation without MAC and IP: alone, twice, and
\* before or after a companion
UnaddressedBatches ==
    {<<Unaddressed>>, <<Unaddressed, Unaddressed>>}
        \cup {<<Unaddressed, o>> : o \in SkipCompanions}
        \cup {<<o, Unaddressed>> : o \in SkipCompanions}

\* C18: a scan does what the scan of the same batch without the observations
\* that carry neither MAC nor IP would do: the same rows, the same devices
\* matched, the same status.
C18_UnaddressedSkipped ==
    [][last_op'.op = "scan" =>
       \A batch \in UnaddressedBatches :
          ScanStep(batch) =>
              /\ devices' = process_batch(
                                LoopState(devices, next_id, scan_log, <<>>, FALSE),
                                WithoutUnaddressed(batch),
                                Len(WithoutUnaddressed(batch)),
                                last_op'.user, last_op'.now).rows
              /\ Len(last_op'.touched) = Len(WithoutUnaddressed(batch))
                    \/ last_op'.status = 500
              /\ WithoutUnaddressed(batch) = <<>> =>
                    (devices' = devices /\ last_op'.status = 201)
      ]_vars

\* C18 witness: a scan of two observations has succeeded and matched one device.
C18_Witness ==
    /\ last_op.op = "scan"
    /\ last_op.status = 201
    /\ last_op.devices_count = 2
    /\ Len(last_op.touched) = 1

\* The pairs of observations with the same identity key
SameKeyBatches == {b \in [1..2 -> Addressed] : SameKey(b[1], b[2])}

\* C19: a scan of two observations with the same identity key applies both to
\* one device, the first creating or updating it and the second updating it,
\* and the device ends with the second one's value in every field both supply.
C19_LastWins ==
    [][\A batch \in SameKeyBatches :
          ScanStep(batch) =>
              \E e \in devices' :
                  /\ KeyRows(devices', last_op'.user, batch[1]) = {e}
                  /\ last_op'.touched = <<e.id, e.id>>
                  /\ (ObsIp(batch[1]) # "" /\ ObsIp(batch[2]) # "")
                        => e.ip_address = ObsIp(batch[2])
                  /\ (Supplied(batch[1].name) /\ Supplied(batch[2].name))
                        => e.name = batch[2].name
                  /\ (Supplied(batch[1].device_type) /\ Supplied(batch[2].device_type))
                        => e.device_type = batch[2].device_type
      ]_vars

\* The pairs with the same MAC
SameMacBatches == {b \in SameKeyBatches : ObsMac(b[1]) # ""}

\* The statement of C19 for the pairs that share a MAC
C19_LastWinsSameMac ==
    [][\A batch \in SameMacBatches :
          ScanStep(batch) =>
              \E e \in devices' :
                  /\ KeyRows(devices', last_op'.user, batch[1]) = {e}
                  /\ last_op'.touched = <<e.id, e.id>>
                  /\ (ObsIp(batch[1]) # "" /\ ObsIp(batch[2]) # "")
                        => e.ip_address = ObsIp(batch[2])
                  /\ (Supplied(batch[1].name) /\ Supplied(batch[2].name))
                        => e.name = batch[2].name
                  /\ (Supplied(batch[1].device_type) /\ Supplied(batch[2].device_type))
                        => e.device_type = batch[2].device_type
      ]_vars

-----------------------------------------------------------------------------
(* The score as a function of the three penalties, checked under ScoreSpec *)

\* clamp(x, 0, 100)
Clamp(x) == IF x < 0 THEN 0 ELSE IF x > 100 THEN 100 ELSE x

\* C20: the score is clamp(100 - (permission + network + category penalty), 0, 100)
\* in whatever order the three are summed; changing the category or the network
\* level leaves the permission penalty as it is, changing the permissions or the
\* category leaves the network penalty, changing the permissions or the network
\* level leaves the category penalty; the network penalty is 0, 5, 15 for LOW,
\* MEDIUM, HIGH and the category penalty is that of the normalized category.
C20_ScoreFormula ==
    Returned =>
        LET pp == result.permission_penalty
            np == result.network_penalty
            cp == result.category_penalty
        IN /\ result.score = Clamp(100 - ((pp + np) + cp))
           /\ result.score = Clamp(100 - (cp + (np + pp)))
           /\ result.score = Clamp(100 - ((cp + pp) + np))
           /\ \A c \in Categories :
                 LET r == calculate_privacy_score(permissions, c, network_usage_level)
                 IN r.permission_penalty = pp /\ r.network_penalty = np
           /\ \A l \in NetworkLevels :
                 LET r == calculate_privacy_score(permissions, category, l)
                 IN r.permission_penalty = pp /\ r.category_penalty = cp
           /\ \A q \in PermUniverse :
                 LET r == calculate_privacy_score(Append(permissions, q), category,
                                                  network_usage_level)
                 IN r.network_penalty = np /\ r.category_penalty = cp
           /\ network_usage_level = Low => np = 0
           /\ network_usage_level = Medium => np = 5
           /\ network_usage_level = High => np = 15
           /\ calculate_privacy_score(permissions, category_lower_of(category),
                                      network_usage_level).category_penalty = cp

\* C20 witness: a result with a positive permission penalty, the HIGH network
\* penalty and a negative category penalty, scored without clamping.
C20_Witness ==
    /\ Returned
    /\ result.permission_penalty > 0
    /\ result.network_penalty = 15
    /\ result.category_penalty < 0
    /\ result.score = 100 - result.permission_penalty - 15 - result.category_penalty
    /\ result.score < 100

-----------------------------------------------------------------------------
(* The same handlers run as concurrent requests. Every ORM call is one statement
   that commits on its own; between two statements of a request the statements
   of other requests may run. A request keeps the row it has read as a local
   object and save() writes all of its fields back. *)

\* The local `device` of a request that has not read a row
NoDevice == [id |-> 0]

\* A request: its handler (kind), caller, arguments, position (pc), local
\* `device`, whether its INSERT raised IntegrityError, and its response status
Request(kind, user, pk, batch, now, i, pc, status) ==
    [kind |-> kind, user |-> user, pk |-> pk, batch |-> batch, now |-> now,
     i |-> i, pc |-> pc, device |-> NoDevice, raced |-> FALSE, status |-> status]

\* The index of the next observation after i that the loop does not skip, 0 when
\* the loop ends
NextObservation(batch, i) ==
    LET rest == {j \in (i + 1)..Len(batch) :
                    ~no_address(info_get(batch[j].mac_address, ""),
                                info_get(batch[j].ip_address, ""))}
    IN IF rest = {} THEN 0 ELSE CHOOSE j \in rest : \A k \in rest : j <= k

\* The request at the top of the next iteration, or at its 201 response
Continue(req) ==
    IF NextObservation(req.batch, req.i) = 0
    THEN [req EXCEPT !.pc = "done", !.status = 201, !.device = NoDevice]
    ELSE [req EXCEPT !.pc = "get", !.i = NextObservation(req.batch, req.i),
                     !.device = NoDevice]

\* The rows the get_or_create of the request's current observation looks up
Lookup(req, rows) ==
    LET mac == info_get(req.batch[req.i].mac_address, "")
        ip == info_get(req.batch[req.i].ip_address, "")
    IN IF mac # "" THEN lookup_by_mac(rows, req.user, mac)
       ELSE lookup_by_ip(rows, req.user, ip)

\* The batches the concurrent scans submit
ConcBatches ==
    {<<Obs(MAC1, IP1, "tv", "TV")>>,
     <<Obs(Absent, IP1, Absent, Absent)>>,
     <<Obs(Absent, Absent, "ghost", Absent), Obs(MAC1, IP2, "box", "IOT")>>}

\* POST /network/scans/ arrives: `now = timezone.now()` and the loop's first
\* iteration
begin_scan(user, batch, now) ==
    /\ Len(procs) < MaxProcs
    /\ now \in Now
    /\ clock' = now
    /\ procs' = Append(procs, Continue(Request("scan", user, 0, batch, now, 0, "get", 0)))
    /\ UNCHANGED <<devices, next_id, requests, last_op, scan_log, flag_log>>
    /\ UNCHANGED <<score_vars, auth_vars>>

\* get_or_create's SELECT: the row becomes the local `device`, or none is found
\* and the INSERT follows
scan_get(p) ==
    /\ p \in DOMAIN procs
    /\ procs[p].kind = "scan" /\ procs[p].pc = "get"
    /\ LET found == Lookup(procs[p], devices) IN
       procs' = [procs EXCEPT ![p] =
                    IF Cardinality(found) = 1
                    THEN [@ EXCEPT !.pc = "save", !.device = CHOOSE r \in found : TRUE]
                    ELSE IF Cardinality(found) > 1
                    THEN [@ EXCEPT !.pc = "done", !.status = 500]
                    ELSE [@ EXCEPT !.pc = "insert"]]
    /\ UNCHANGED <<devices, next_id, clock, requests, last_op, scan_log, flag_log>>
    /\ UNCHANGED <<score_vars, auth_vars>>

\* get_or_create's INSERT: the row is stored (created = True, no update follows),
\* or unique_together raises IntegrityError and get_or_create looks up again
scan_insert(p) ==
    /\ p \in DOMAIN procs
    /\ procs[p].kind = "scan" /\ procs[p].pc = "insert"
    /\ LET req == procs[p]
           row == new_device(next_id, req.user,
                             info_get(req.batch[req.i].mac_address, ""),
                             info_get(req.batch[req.i].ip_address, ""),
                             req.batch[req.i], req.now)
       IN IF unique_together(devices, row)
          THEN /\ next_id <= MaxDevices
               /\ devices' = devices \cup {row}
               /\ next_id' = next_id + 1
               /\ procs' = [procs EXCEPT ![p] = Continue(req)]
          ELSE /\ procs' = [procs EXCEPT ![p] = [req EXCEPT !.pc = "reget", !.raced = TRUE]]
               /\ UNCHANGED <<devices, next_id>>
    /\ UNCHANGED <<clock, requests, last_op, scan_log, flag_log>>
    /\ UNCHANGED <<score_vars, auth_vars>>

\* get_or_create's second SELECT after IntegrityError: the row another request
\* stored becomes the local `device`, or the IntegrityError is raised again and
\* the response is a 500
scan_reget(p) ==
    /\ p \in DOMAIN procs
    /\ procs[p].kind = "scan" /\ procs[p].pc = "reget"
    /\ LET found == Lookup(procs[p], devices) IN
       procs' = [procs EXCEPT ![p] =
                    IF Cardinality(found) = 1
                    THEN [@ EXCEPT !.pc = "save", !.device = CHOOSE r \in found : TRUE]
                    ELSE [@ EXCEPT !.pc = "done", !.status = 500]]
    /\ UNCHANGED <<devices, next_id, clock, requests, last_op, scan_log, flag_log>>
    /\ UNCHANGED <<score_vars, auth_vars>>

\* The `if not created:` block: the assignments to the local `device` and
\* device.save(), which writes every field of the local object to the row
scan_save(p) ==
    /\ p \in DOMAIN procs
    /\ procs[p].kind = "scan" /\ procs[p].pc = "save"
    /\ LET req == procs[p] IN
       /\ devices' = Saved(devices,
                           update_device(req.device,
                                         info_get(req.batch[req.i].ip_address, ""),
                                         req.batch[req.i], req.now))
       /\ procs' = [procs EXCEPT ![p] = Continue(req)]
    /\ UNCHANGED <<next_id, clock, requests, last_op, scan_log, flag_log>>
    /\ UNCHANGED <<score_vars, auth_vars>>

FlagActions == {"mark_trusted", "mark_blocked", "unmark"}

\* POST /network/devices/{pk}/mark_trusted/, mark_blocked/ or unmark/ arrives
begin_flag(kind, user, pk) ==
    /\ Len(procs) < MaxProcs
    /\ procs' = Append(procs, Request(kind, user, pk, <<>>, clock, 0, "get_object", 0))
    /\ UNCHANGED <<devices, next_id, clock, requests, last_op, scan_log, flag_log>>
    /\ UNCHANGED <<score_vars, auth_vars>>

\* `device = self.get_object()`: the row of the caller's queryset becomes the
\* local `device`, or the response is a 404
flag_get_object(p) ==
    /\ p \in DOMAIN procs
    /\ procs[p].kind \in FlagActions /\ procs[p].pc = "get_object"
    /\ procs' = [procs EXCEPT ![p] =
                    IF \E r \in get_queryset(@.user) : r.id = @.pk
                    THEN [@ EXCEPT !.pc = "save", !.device = RowOf(devices, procs[p].pk)]
                    ELSE [@ EXCEPT !.pc = "done", !.status = 404]]
    /\ UNCHANGED <<devices, next_id, clock, requests, last_op, scan_log, flag_log>>
    /\ UNCHANGED <<score_vars, auth_vars>>

\* The action's two assignments to the local `device`
flags_assigned(kind, d) ==
    IF kind = "mark_trusted" THEN trusted_flags(d)
    ELSE IF kind = "mark_blocked" THEN blocked_flags(d)
    ELSE unmarked_flags(d)

\* The two assignments and device.save(), which writes every field of the local
\* object to the row; flag_log notes the flags this request wrote
flag_save(p) ==
    /\ p \in DOMAIN procs
    /\ procs[p].kind \in FlagActions /\ procs[p].pc = "save"
    /\ LET req == procs[p]
           d == flags_assigned(req.kind, req.device)
       IN /\ devices' = Saved(devices, d)
          /\ flag_log' = (d.id :> Flags(d)) @@ flag_log
          /\ procs' = [procs EXCEPT ![p] = [req EXCEPT !.pc = "done", !.status = 200]]
    /\ UNCHANGED <<next_id, clock, requests, last_op, scan_log>>
    /\ UNCHANGED <<score_vars, auth_vars>>

ProcIds == 1..MaxProcs

ConcNext ==
    \/ \E user \in Users, batch \in ConcBatches, now \in Now : begin_scan(user, batch, now)
    \/ \E p \in ProcIds : scan_get(p)
    \/ \E p \in ProcIds : scan_insert(p)
    \/ \E p \in ProcIds : scan_reget(p)
    \/ \E p \in ProcIds : scan_save(p)
    \/ \E kind \in FlagActions, user \in Users, pk \in Ids : begin_flag(kind, user, pk)
    \/ \E p \in ProcIds : flag_get_object(p)
    \/ \E p \in ProcIds : flag_save(p)

ConcSpec == Init /\ [][ConcNext]_vars

-----------------------------------------------------------------------------
(* Properties of the concurrent requests, checked under ConcSpec *)

\* Every request has sent its response
Quiescent == \A p \in DOMAIN procs : procs[p].pc = "done"

\* C12: whatever the interleaving of the requests, no two rows have the same
\* owner and the same non-empty MAC, and no two rows with an empty MAC have the
\* same owner and the same IP.
C12_OneDevicePerKey ==
    \A r1 \in devices : \A r2 \in devices :
        (/\ r1.owner = r2.owner
         /\ r1.mac_address = r2.mac_address
         /\ r1.mac_address = "" => r1.ip_address = r2.ip_address)
            => r1.id = r2.id

\* C12 witness: two scans of the same caller looked up the same key and found
\* nothing; one stored the row, the other's INSERT raised IntegrityError, its
\* second lookup found that row and it answered 201.
C12_Witness ==
    \E p \in DOMAIN procs : \E q \in DOMAIN procs :
        /\ p # q
        /\ procs[p].kind = "scan" /\ procs[q].kind = "scan"
        /\ procs[p].user = procs[q].user
        /\ procs[p].batch = procs[q].batch
        /\ procs[p].raced /\ ~procs[q].raced
        /\ procs[p].pc = "done" /\ procs[p].status = 201
        /\ procs[q].pc = "done" /\ procs[q].status = 201
        /\ Cardinality({r \in devices : r.owner = procs[p].user}) = 1

\* C16: once every request has answered, each device whose flags a trust/block
\* request has written carries the flags the last such request wrote.
C16_FlagsSurviveScan ==
    Quiescent =>
        \A d \in devices :
            d.id \in DOMAIN flag_log => Flags(d) = flag_log[d.id]

-----------------------------------------------------------------------------
(* The scorer on longer lists that mix a high-risk permission, two medium-risk
   ones and a known one below both classes *)

BluetoothConnect == "android.permission.BLUETOOTH_CONNECT"

\* weights 15, 12, 8 and 5
ListedUniverse == {Camera, ReadContacts, ReadCalendar, BluetoothConnect}

ListedLists == UNION {[1..n -> ListedUniverse] : n \in 0..MaxListed}

\* PrivacyCheckView.post's validated input
ListedInit ==
    /\ permissions \in ListedLists
    /\ category \in {Finance, Games}
    /\ network_usage_level \in {Medium, High}
    /\ result = NoResult
    /\ devices = {}
    /\ next_id = 1
    /\ clock = 0
    /\ requests = 0
    /\ last_op = [op |-> "none"]
    /\ scan_log = <<>>
    /\ procs = <<>>
    /\ flag_log = <<>>
    /\ users = {}
    /\ social_accounts = {}
    /\ login = [op |-> "none"]

ListedSpec == ListedInit /\ [][ScoreNext]_vars

-----------------------------------------------------------------------------
(* Properties of the explanation and of the score's range *)

\* The table's weight of a permission, 0 for one that is not in the table
Weight(p) == IF p \in DOMAIN DANGEROUS_PERMISSIONS THEN DANGEROUS_PERMISSIONS[p] ELSE 0

\* The risk classes as the specification words them
IsHighRisk(p) == Weight(p) >= 15
IsMediumRisk(p) == Weight(p) >= 8 /\ Weight(p) < 14

\* The readable names of a list of known permissions
Names(perms) == [i \in 1..Len(perms) |-> simplify_permission_name[perms[i]]]

\* The clauses of the explanation, in order
Clauses == [i \in DOMAIN result.explanation |-> result.explanation[i].clause]

\* The permissions the note with this text lists, <<>> when there is no such note
Listed(text) ==
    IF HasNote(text)
    THEN LET i == CHOOSE i \in DOMAIN result.explanation :
                      \E j \in DOMAIN result.explanation[i].notes :
                          result.explanation[i].notes[j].text = text
             j == CHOOSE j \in DOMAIN result.explanation[i].notes :
                      result.explanation[i].notes[j].text = text
         IN result.explanation[i].notes[j].args
    ELSE <<>>

\* How often a name is in a list of names
TimesListed(names, name) == Cardinality({i \in DOMAIN names : names[i] = name})

NeutralSentence == "This app has moderate privacy characteristics."

\* C21: the explanation is the neutral sentence alone exactly when the list has
\* no high-risk and no medium-risk known permission, the level is not HIGH, the
\* category penalty is not negative, the score is below 80 and the list is not
\* empty; otherwise it is the Concerns clause, the Positives clause or both in
\* that order, and the neutral sentence is not part of it.
C21_NeutralExplanation ==
    Returned =>
        LET neither ==
                /\ \A i \in DOMAIN permissions :
                      ~IsHighRisk(permissions[i]) /\ ~IsMediumRisk(permissions[i])
                /\ str_upper(network_usage_level) # High
                /\ ~(result.category_penalty < 0)
                /\ result.score < 80
                /\ permissions # <<>>
        IN /\ neither <=> result.explanation = <<Neutral>>
           /\ ~neither =>
                 /\ Clauses \in {<<"Concerns">>, <<"Positives">>, <<"Concerns", "Positives">>}
                 /\ \A i \in DOMAIN result.explanation :
                       result.explanation[i].notes # <<>>

\* C21 witness: a non-empty list of permissions below both classes has been
\* scored under 80 and the explanation is the neutral sentence.
C21_Witness ==
    /\ Returned
    /\ permissions # <<>>
    /\ result.score < 80
    /\ result.explanation = <<Neutral>>
    /\ Neutral.clause = NeutralSentence

\* Lists against which a list of the same summed weight is compared: 15 as one
\* high-risk permission or three of weight 5, 20 as 12 + 8 or 15 + 5, 24 as
\* 12 + 12 or 8 + 8 + 8, 40 as five of weight 8 or 15 + 15 + 5 + 5
EqualWeightLists ==
    {<<Camera>>, <<BluetoothConnect, BluetoothConnect, BluetoothConnect>>,
     <<ReadContacts, ReadCalendar>>, <<Camera, BluetoothConnect>>,
     <<ReadContacts, ReadContacts>>, <<ReadCalendar, ReadCalendar, ReadCalendar>>,
     <<ReadCalendar, ReadCalendar, ReadCalendar, ReadCalendar, ReadCalendar>>,
     <<Camera, Camera, BluetoothConnect, BluetoothConnect>>}

\* C22: the note "High-risk permissions" lists, in order, every permission of
\* the input of weight >= 15, the note "Sensitive permissions" the first 5 of
\* those of weight in [8,14), each note being there iff its list is not empty;
\* a list of the same summed weight gets the same score whatever its classes.
C22_RiskClasses ==
    Returned =>
        LET high == Names(SelectSeq(permissions, IsHighRisk))
            medium == Names(SelectSeq(permissions, IsMediumRisk))
        IN /\ HasNote("High-risk permissions") <=> high # <<>>
           /\ Listed("High-risk permissions") = high
           /\ HasNote("Sensitive permissions") <=> medium # <<>>
           /\ Listed("Sensitive permissions") = SubSeq(medium, 1, Min(5, Len(medium)))
           /\ \A other \in EqualWeightLists :
                 WeightSum(other) = WeightSum(permissions)
                    => score_of(other, category, network_usage_level) = result.score

\* C22 witness: a list with more than 5 medium-risk permissions, of which 5 are
\* listed.
C22_Witness ==
    /\ Returned
    /\ Len(SelectSeq(permissions, IsMediumRisk)) > 5
    /\ Len(Listed("Sensitive permissions")) = 5

\* C24: with the shipped tables the total penalty is at most 60 + 15 + 5, the
\* score is 100 minus it unless that is above 100, never below 20, and
\* CONSIDER_UNINSTALL goes with the scores 20..39 only.
C24_ScoreAtLeast20 ==
    /\ \A c \in DOMAIN CATEGORY_ADJUSTMENTS : CATEGORY_ADJUSTMENTS[c].base_penalty <= 5
    /\ \A l \in DOMAIN NETWORK_USAGE_PENALTIES : NETWORK_USAGE_PENALTIES[l] <= 15
    /\ Returned =>
          /\ result.permission_penalty + result.network_penalty
                + result.category_penalty <= 80
          /\ result.score >= 20
          /\ result.score = Min(100, 100 - (result.permission_penalty
                + result.network_penalty + result.category_penalty))
          /\ result.suggested_action = "CONSIDER_UNINSTALL"
                => (20 <= result.score /\ result.score <= 39)

\* C24 witness: the largest total penalty: the capped permission penalty, HIGH
\* and a category of base penalty 5 give the score 20.
C24_Witness ==
    /\ Returned
    /\ result.permission_penalty = 60
    /\ result.network_penalty = 15
    /\ result.category_penalty = 5
    /\ result.score = 20
    /\ result.suggested_action = "CONSIDER_UNINSTALL"

\* C25 as stated: every known permission adds its weight once per occurrence to
\* the penalty before the cap and is listed in the explanation as often as it
\* occurs in the input.
C25_ListedPerOccurrence ==
    Returned =>
        /\ result.permission_penalty = Min(60, WeightSum(permissions))
        /\ \A p \in ListedUniverse :
              TimesListed(Listed("High-risk permissions") \o Listed("Sensitive permissions"),
                          simplify_permission_name[p])
                  = Occurrences(permissions, p)

\* The occurrences of p among the first 5 permissions of the input with a weight
\* from 8 to 14
AmongFirstFiveMedium(perms, p) ==
    LET medium == SelectSeq(perms, LAMBDA q : Weight(q) >= 8 /\ Weight(q) < 15)
    IN Cardinality({i \in 1..Min(5, Len(medium)) : medium[i] = p})

\* C25: every known permission adds its weight once per occurrence to the
\* penalty before the cap; one of weight >= 15 is listed as often as it occurs,
\* one of weight 8..14 as often as it is among the first 5 such permissions of
\* the input, one of lower weight is not listed; scoring <<p, p>> gives a lower
\* score than scoring <<p>>.
C25_SequenceNotSet ==
    Returned =>
        /\ result.permission_penalty = Min(60, WeightSum(permissions))
        /\ \A p \in ListedUniverse :
              TimesListed(Listed("High-risk permissions") \o Listed("Sensitive permissions"),
                          simplify_permission_name[p])
                  = IF Weight(p) >= 15 THEN Occurrences(permissions, p)
                    ELSE IF Weight(p) >= 8 THEN AmongFirstFiveMedium(permissions, p)
                    ELSE 0
        /\ Len(permissions) = 1 =>
              score_of(permissions \o permissions, category, network_usage_level)
                  < result.score

\* C25 witness: a permission that is twice in the list has been counted twice,
\* below the cap.
C25_Witness ==
    /\ Returned
    /\ Len(permissions) = 2
    /\ permissions[1] = permissions[2]
    /\ result.permission_penalty = 2 * Weight(permissions[1])
    /\ TimesListed(Listed("High-risk permissions"), "Camera") = 2

-----------------------------------------------------------------------------
(* Failure of the storage layer, owner isolation and the order of the two
   timestamps *)

\* The scans whose outcome is compared with what they stored: one observation
\* with an address, or one or two IP-only observations
StoredBatches == {<<o>> : o \in Addressed} \cup IpOnlyBatches

\* C23: a scan answers 201 exactly when every observation of the batch that has
\* an address has a device for its key afterwards; when the INSERT of one was
\* rejected, so that it has none, the answer is a 500.
C23_StorageFailureSurfaces ==
    [][last_op'.op = "scan" =>
       \A batch \in StoredBatches :
          ScanStep(batch) =>
              /\ last_op'.status \in {201, 500}
              /\ last_op'.status = 201 <=>
                    \A i \in 1..Len(batch) :
                        KeyRows(devices', last_op'.user, batch[i]) # {}
      ]_vars

\* C23 witness: a scan has answered 500 and the caller has no device for an IP
\* other than the one stored before.
C23_Witness ==
    /\ last_op.op = "scan"
    /\ last_op.status = 500
    /\ \E r \in devices : r.owner = last_op.user /\ r.mac_address = ""

\* The rows that do not belong to the user
OthersRows(rows, user) == {r \in rows : r.owner # user}

\* C26: a scan, mark_trusted, mark_blocked or unmark of a user leaves the rows of
\* every other owner as they were, stores new rows only under the caller, and
\* matches or returns only rows of the caller.
C26_OwnerIsolation ==
    [][last_op'.op \in {"scan", "mark_trusted", "mark_blocked", "unmark"} =>
          /\ OthersRows(devices', last_op'.user) = OthersRows(devices, last_op'.user)
          /\ last_op'.op = "scan" =>
                \A i \in 1..Len(last_op'.touched) :
                    \E r \in devices' :
                        r.id = last_op'.touched[i] /\ r.owner = last_op'.user
          /\ (last_op'.op # "scan" /\ last_op'.status = 200) =>
                \E r \in devices' : r.id = last_op'.pk /\ r.owner = last_op'.user
          /\ (last_op'.op # "scan" /\ last_op'.status = 404) => devices' = devices
      ]_vars

\* C26 witness: two owners each have a device with the same MAC, and the last
\* scan matched the caller's own.
C26_Witness ==
    /\ last_op.op = "scan"
    /\ Len(last_op.touched) = 1
    /\ \E r1 \in devices : \E r2 \in devices :
          /\ r1.owner = last_op.user /\ r2.owner # last_op.user
          /\ r1.mac_address = MAC1 /\ r2.mac_address = MAC1
          /\ r1.id = last_op.touched[1]
          /\ r1.last_seen_at > r1.first_seen_at
          /\ r2.last_seen_at = r2.first_seen_at

\* C27: every device's first_seen_at is at most its last_seen_at.
C27_FirstSeenBeforeLastSeen ==
    \A d \in devices : d.first_seen_at <= d.last_seen_at

-----------------------------------------------------------------------------
(* views_auth.py: registration and social login. verify_google_token and
   verify_apple_token either raise SocialAuthError or return the token's
   sub, email and email_verified. *)

Providers == {"GOOGLE", "APPLE"}
Subjects == {"sub-1", "sub-2"}
Emails == {"ann@example.org", "ben@example.org"}

\* What the verification of a token returns; email is '' when the token has none
TokenData == [sub : Subjects, email : Emails \cup {""}, email_verified : BOOLEAN]

\* A token whose verification raises SocialAuthError
BadToken == [sub |-> "", email |-> "", email_verified |-> FALSE]

\* f"{sub}@google.antygravity.local" and f"{sub}@apple.antygravity.local"
fake_email(provider, sub) ==
    CASE provider = "GOOGLE" /\ sub = "sub-1" -> "sub-1@google.antygravity.local"
      [] provider = "GOOGLE" /\ sub = "sub-2" -> "sub-2@google.antygravity.local"
      [] provider = "APPLE" /\ sub = "sub-1" -> "sub-1@apple.antygravity.local"
      [] provider = "APPLE" /\ sub = "sub-2" -> "sub-2@apple.antygravity.local"

\* User.email is unique
email_unique(rows, email) == ~\E u \in rows : u.email = email

\* The User row create_user stores
new_user(rows, email) == [id |-> Cardinality(rows) + 1, email |-> email]

\* SocialAccount.objects.get(provider=..., provider_user_id=sub)
social_account_get(rows, provider, sub) ==
    {a \in rows : a.provider = provider /\ a.provider_user_id = sub}

\* Faulty variant: an existing user is looked up only for a verified email
user_by_email_if_verified(rows, data) ==
    IF data.email_verified THEN {u \in rows : u.email = data.email} ELSE {}

\* User.objects.get(email=email)
user_by_email(rows, data) == {u \in rows : u.email = data.email}

\* POST /auth/register/: the serializer rejects an email that is taken (400),
\* otherwise create_user stores the user (201)
register(email) ==
    /\ requests < MaxLogins
    /\ requests' = requests + 1
    /\ IF email_unique(users, email)
       THEN /\ users' = users \cup {new_user(users, email)}
            /\ login' = [op |-> "register", status |-> 201,
                         user |-> new_user(users, email).id]
       ELSE /\ users' = users
            /\ login' = [op |-> "register", status |-> 400, user |-> 0]
    /\ UNCHANGED social_accounts
    /\ UNCHANGED <<score_vars, devices, next_id, clock, last_op, scan_log, conc_vars>>

\* The response of a social login and what it did
LoginDone(provider, data, status, user, new_user_made, new_account_made) ==
    [op |-> "social", provider |-> provider, sub |-> data.sub, email |-> data.email,
     email_verified |-> data.email_verified, status |-> status, user |-> user,
     new_user |-> new_user_made, new_account |-> new_account_made]

\* POST /auth/social/google/ and /auth/social/apple/: the whole handler. A token
\* that does not verify gives a 400. The SocialAccount of (provider, sub) gives
\* its user; without one the user is the one with the token's email, or a new
\* one (with a made-up email when the token has none), and a SocialAccount is
\* stored for it. An IntegrityError of create_user leaves the handler (500).
social_login(provider, data) ==
    /\ requests < MaxLogins
    /\ requests' = requests + 1
    /\ LET found == social_account_get(social_accounts, provider, data.sub)
           known == user_by_email(users, data)
           email == IF data.email # "" THEN data.email ELSE fake_email(provider, data.sub)
           made == new_user(users, email)
           account(uid) == [user |-> uid, provider |-> provider,
                            provider_user_id |-> data.sub, email |-> data.email]
       IN IF data = BadToken
          THEN /\ login' = LoginDone(provider, data, 400, 0, FALSE, FALSE)
               /\ UNCHANGED <<users, social_accounts>>
          ELSE IF found # {}
          THEN /\ login' = LoginDone(provider, data, 200,
                                     (CHOOSE a \in found : TRUE).user, FALSE, FALSE)
               /\ UNCHANGED <<users, social_accounts>>
          ELSE IF data.email # "" /\ known # {}
          THEN /\ social_accounts' =
                      social_accounts \cup {account((CHOOSE u \in known : TRUE).id)}
               /\ login' = LoginDone(provider, data, 200,
                                     (CHOOSE u \in known : TRUE).id, FALSE, TRUE)
               /\ UNCHANGED users
          ELSE IF email_unique(users, email)
          THEN /\ users' = users \cup {made}
               /\ social_accounts' = social_accounts \cup {account(made.id)}
               /\ login' = LoginDone(provider, data, 200, made.id, TRUE, TRUE)
          ELSE /\ login' = LoginDone(provider, data, 500, 0, FALSE, FALSE)
               /\ UNCHANGED <<users, social_accounts>>
    /\ UNCHANGED <<score_vars, devices, next_id, clock, last_op, scan_log, conc_vars>>

AuthNext ==
    \/ \E email \in Emails : register(email)
    \/ \E provider \in Providers, data \in TokenData \cup {BadToken} :
          social_login(provider, data)

AuthSpec == Init /\ [][AuthNext]_vars

-----------------------------------------------------------------------------
(* Properties of the social login, checked under AuthSpec *)

\* C28: a social login with a verified token whose (provider, sub) has no
\* SocialAccount and whose email is that of an existing user answers 200 for
\* that user, stores one SocialAccount of (provider, sub) for it and no user,
\* whatever email_verified is; one whose (provider, sub) has a SocialAccount
\* answers 200 for that account's user and stores nothing.
C28_SocialLoginLinks ==
    [][(login'.op = "social" /\ login'.status # 400) =>
          LET found == {a \in social_accounts :
                           a.provider = login'.provider
                               /\ a.provider_user_id = login'.sub}
              known == {u \in users : u.email = login'.email}
          IN /\ (found = {} /\ known # {}) =>
                    \E u \in known :
                        /\ login'.status = 200
                        /\ login'.user = u.id
                        /\ users' = users
                        /\ social_accounts' = social_accounts \cup
                              {[user |-> u.id, provider |-> login'.provider,
                                provider_user_id |-> login'.sub,
                                email |-> login'.email]}
                        /\ Cardinality(social_accounts') = Cardinality(social_accounts) + 1
             /\ found # {} =>
                    \E a \in found :
                        /\ found = {a}
                        /\ login'.status = 200
                        /\ login'.user = a.user
                        /\ users' = users
                        /\ social_accounts' = social_accounts
      ]_vars

\* C28 witness: a login whose token's email is not verified has just been
\* linked to an existing user, who now has the SocialAccount of that subject.
C28_Witness ==
    /\ login.op = "social"
    /\ login.status = 200
    /\ ~login.email_verified
    /\ login.new_account /\ ~login.new_user
    /\ \E u \in users :
          /\ u.id = login.user
          /\ u.email = login.email
          /\ \E a \in social_accounts :
                a.user = u.id /\ a.provider = login.provider
                    /\ a.provider_user_id = login.sub

=============================================================================
